---- MODULE Spec2Model ----
(***************************************************************************)
(* A model of the context algorithms and shape predicates of the JSON-LD   *)
(* processor: createTermDefinition, createInverseContext, selectTerm       *)
(* (src/src/algorithms/context.ts), expandIri (src/unnamed/part_002) and   *)
(* the predicates of src/unnamed/part_004.                                 *)
(*                                                                         *)
(* JavaScript strings are sequences of one-character strings, so that the  *)
(* character-level operations of the code (includes, split, match,         *)
(* startsWith, concatenation, sorting) are computed and not assumed.       *)
(* Every other JavaScript value is a record [t, v] tagged by its typeof.   *)
(***************************************************************************)
EXTENDS Integers, Sequences, FiniteSets, TLC

VARIABLES
    activeContext,  \* the ActiveContext object handed to the context algorithms
    localCtx,       \* the local context whose terms a run defines
    defined,        \* the `defined` map (term -> boolean) shared by the calls of one run
    ret,            \* outcome of the last call on activeContext
    arg,            \* input of a function applied on its own
    out             \* its result

vars == <<activeContext, localCtx, defined, ret, arg, out>>

----------------------------------------------------------------------------
(* Bounds of the model *)

MaxStrLen == 2          \* longest generated @id string of a classified map
MaxKeys == 3            \* most keys of a classified map
MaxContainerLen == 3    \* longest generated @container array
MaxPrefs == 2           \* longest generated containers / preferredValues list
MaxEntries == 2         \* most entries of a generated term value map
MaxTerms == 2           \* most term definitions of a generated active context
MaxCalls == 3           \* most calls of generateBlankNodeIdentifier in one run

----------------------------------------------------------------------------
(* JavaScript values *)

Undefined == [t |-> "undefined", v |-> <<>>]
Null == [t |-> "null", v |-> <<>>]
Str(s) == [t |-> "string", v |-> s]
Num(n) == [t |-> "number", v |-> <<n>>]
Bool(b) == [t |-> "boolean", v |-> <<b>>]
Arr(a) == [t |-> "array", v |-> a]
Obj(m) == [t |-> "object", v |-> m]
MapOf(m) == [t |-> "map", v |-> m]     \* a Map object holding the entries m

True == Bool(TRUE)
False == Bool(FALSE)
EmptyMap == [k \in {} |-> Undefined]

\* typeof x
TypeOf(x) == IF x.t \in {"null", "array"} THEN "object" ELSE x.t

\* the truthiness of x in a condition
Truthy(x) ==
    CASE x.t \in {"undefined", "null"} -> FALSE
      [] x.t = "string" -> x.v # <<>>
      [] x.t = "number" -> x.v # <<0>>
      [] x.t = "boolean" -> x.v = <<TRUE>>
      [] OTHER -> TRUE

\* String(x) for the values the code converts: a string, null or undefined
ToStr(x) ==
    CASE x.t = "string" -> x.v
      [] x.t = "null" -> <<"n", "u", "l", "l">>
      [] OTHER -> <<"u", "n", "d", "e", "f", "i", "n", "e", "d">>

\* m[k], undefined when m has no entry k
Get(m, k) == IF k \in DOMAIN m THEN m[k] ELSE Undefined

\* m with the entry k set to x
Put(m, k, x) == [j \in DOMAIN m \cup {k} |-> IF j = k THEN x ELSE m[j]]

\* m without the entry k
Del(m, k) == [j \in DOMAIN m \ {k} |-> m[j]]

----------------------------------------------------------------------------
(* Strings *)

LowerAlpha ==
    {"a", "b", "c", "d", "e", "f", "g", "h", "i", "j", "k", "l", "m",
     "n", "o", "p", "q", "r", "s", "t", "u", "v", "w", "x", "y", "z"}
UpperAlpha ==
    {"A", "B", "C", "D", "E", "F", "G", "H", "I", "J", "K", "L", "M",
     "N", "O", "P", "Q", "R", "S", "T", "U", "V", "W", "X", "Y", "Z"}
Alpha == LowerAlpha \cup UpperAlpha
Digit == {"0", "1", "2", "3", "4", "5", "6", "7", "8", "9"}
Space == {" "}

Range(s) == {s[i] : i \in 1..Len(s)}

\* s.includes(c) for a one-character c
Includes(s, c) == c \in Range(s)

\* s.startsWith(p)
StartsWith(s, p) == Len(s) >= Len(p) /\ SubSeq(s, 1, Len(p)) = p

\* index of the first c in s, 0 when there is none
IndexOf(s, c) ==
    IF Includes(s, c) THEN CHOOSE i \in 1..Len(s) : s[i] = c /\ \A j \in 1..(i - 1) : s[j] # c
    ELSE 0

\* s.split(c)
RECURSIVE Split(_, _)
Split(s, c) ==
    LET i == IndexOf(s, c) IN
    IF i = 0 THEN <<s>>
    ELSE <<SubSeq(s, 1, i - 1)>> \o Split(SubSeq(s, i + 1, Len(s)), c)

\* parts.join("")
RECURSIVE Join(_)
Join(parts) == IF parts = <<>> THEN <<>> ELSE Head(parts) \o Join(Tail(parts))

\* s.match(/^@[a-zA-Z]+$/) !== null
KeywordForm(s) == Len(s) >= 2 /\ s[1] = "@" /\ \A i \in 2..Len(s) : s[i] \in Alpha

\* s.match(/[:\/\?#\[\]@]$/) !== null
GenDelim == {":", "/", "?", "#", "[", "]", "@"}
EndsWithGenDelim(s) == Len(s) >= 1 /\ s[Len(s)] \in GenDelim

----------------------------------------------------------------------------
(* Keywords *)

K_graph == <<"@", "g", "r", "a", "p", "h">>
K_id == <<"@", "i", "d">>
K_index == <<"@", "i", "n", "d", "e", "x">>
K_language == <<"@", "l", "a", "n", "g", "u", "a", "g", "e">>
K_list == <<"@", "l", "i", "s", "t">>
K_set == <<"@", "s", "e", "t">>
K_type == <<"@", "t", "y", "p", "e">>
K_vocab == <<"@", "v", "o", "c", "a", "b">>
K_json == <<"@", "j", "s", "o", "n">>
K_none == <<"@", "n", "o", "n", "e">>
K_context == <<"@", "c", "o", "n", "t", "e", "x", "t">>
K_reverse == <<"@", "r", "e", "v", "e", "r", "s", "e">>
K_any == <<"@", "a", "n", "y">>
K_null == <<"@", "n", "u", "l", "l">>

\* the keyword list of types/keyword.ts
Keywords ==
    {K_graph, K_id, K_index, K_language, K_list, K_set, K_type, K_vocab, K_json,
     K_none, K_context, K_reverse, K_any, K_null,
     <<"@", "b", "a", "s", "e">>,
     <<"@", "c", "o", "n", "t", "a", "i", "n", "e", "r">>,
     <<"@", "d", "i", "r", "e", "c", "t", "i", "o", "n">>,
     <<"@", "i", "m", "p", "o", "r", "t">>,
     <<"@", "i", "n", "c", "l", "u", "d", "e", "d">>,
     <<"@", "n", "e", "s", "t">>,
     <<"@", "p", "r", "e", "f", "i", "x">>,
     <<"@", "p", "r", "o", "p", "a", "g", "a", "t", "e">>,
     <<"@", "p", "r", "o", "t", "e", "c", "t", "e", "d">>,
     <<"@", "v", "a", "l", "u", "e">>,
     <<"@", "v", "e", "r", "s", "i", "o", "n">>,
     <<"@", "p", "r", "e", "s", "e", "r", "v", "e">>,
     <<"@", "d", "e", "f", "a", "u", "l", "t">>,
     <<"@", "e", "m", "b", "e", "d">>,
     <<"@", "e", "x", "p", "l", "i", "c", "i", "t">>,
     <<"@", "o", "m", "i", "t", "D", "e", "f", "a", "u", "l", "t">>,
     <<"@", "r", "e", "q", "u", "i", "r", "e", "A", "l", "l">>}

----------------------------------------------------------------------------
(* Shape predicates (src/unnamed/part_004) *)

\* typeof value === "object" && value !== null
IsObject(value) == TypeOf(value) = "object" /\ value.t # "null"

\* the decimal index i of an array, as a property key
IndexKey(i) == ToString(i)

\* Object.keys(value), as a set: the keys of a plain object, the indices of an
\* array; the entries of a Map object are not properties of it
ObjectKeys(value) ==
    CASE value.t = "array" -> {IndexKey(i - 1) : i \in 1..Len(value.v)}
      [] value.t = "map" -> {}
      [] OTHER -> DOMAIN value.v

\* `key in value` for a keyword key
HasKey(value, key) == value.t = "object" /\ key \in DOMAIN value.v

isSubject_KeyCount(value) ==
    IF IsObject(value)
    THEN LET keys == ObjectKeys(value) IN
         /\ "@value" \notin keys
         /\ "@list" \notin keys
         /\ "@set" \notin keys
         /\ (Cardinality(keys) >= 1 \/ "@id" \notin keys)
    ELSE FALSE

isSubject(value) ==
    IF IsObject(value)
    THEN LET keys == ObjectKeys(value) IN
         /\ "@value" \notin keys
         /\ "@list" \notin keys
         /\ "@set" \notin keys
         /\ (Cardinality(keys) > 1 \/ "@id" \notin keys)
    ELSE FALSE

isSubjectRef(value) ==
    IF IsObject(value)
    THEN LET keys == ObjectKeys(value) IN Cardinality(keys) = 1 /\ "@id" \in keys
    ELSE FALSE

isValueObject(value) == IF IsObject(value) THEN HasKey(value, "@value") ELSE FALSE

isListObject(value) == IF IsObject(value) THEN HasKey(value, "@list") ELSE FALSE

isGraphObject(value) ==
    IF IsObject(value)
    THEN LET keys == ObjectKeys(value) IN
         /\ "@graph" \in keys
         /\ Cardinality({key \in keys : key # "@id" /\ key # "@index"}) = 1
    ELSE FALSE

isSimpleGraph(value) == isGraphObject(value) /\ ~HasKey(value, "@id")

isBlankNode_StringOnly(value) ==
    IF IsObject(value)
    THEN LET keys == ObjectKeys(value) IN
         IF "@id" \in keys
         THEN LET id == value.v["@id"] IN
              TypeOf(id) = "string" /\ StartsWith(id.v, <<"_", ":">>)
         ELSE keys = {} \/ \E key \in keys : key \notin {"@value", "@set", "@list"}
    ELSE FALSE

\* isBlankNode with, for a map without @id, the test that none of its keys is
\* @value, @set or @list
isBlankNode_NoneOfThree(value) ==
    IF IsObject(value)
    THEN LET keys == ObjectKeys(value) IN
         IF "@id" \in keys
         THEN LET id == value.v["@id"] IN
              TypeOf(id) # "string" \/ StartsWith(id.v, <<"_", ":">>)
         ELSE keys = {} \/ \A key \in keys : key \notin {"@value", "@set", "@list"}
    ELSE FALSE

isBlankNode(value) ==
    IF IsObject(value)
    THEN LET keys == ObjectKeys(value) IN
         IF "@id" \in keys
         THEN LET id == value.v["@id"] IN
              TypeOf(id) # "string" \/ StartsWith(id.v, <<"_", ":">>)
         ELSE keys = {} \/ \E key \in keys : key \notin {"@value", "@set", "@list"}
    ELSE FALSE

ContainerKeywords == {K_graph, K_id, K_index, K_language, K_list, K_set, K_type}
SetCompanions == {K_set, K_index, K_id, K_graph, K_type, K_language}

isContainer(value) ==
    CASE value.t = "null" -> TRUE
      [] value.t = "string" -> value.v \in ContainerKeywords
      [] value.t = "array" ->
            LET a == value.v
                has(k) == \E i \in 1..Len(a) : a[i] = Str(k)
            IN  IF Len(a) = 1 THEN \E k \in ContainerKeywords : a[1] = Str(k)
                ELSE IF \/ (Len(a) = 2 /\ has(K_graph))
                        \/ (Len(a) = 3 /\ has(K_graph) /\ has(K_set))
                THEN has(K_id) \/ has(K_index)
                ELSE IF has(K_set)
                THEN \A i \in 1..Len(a) : \E k \in SetCompanions : a[i] = Str(k)
                ELSE FALSE
      [] OTHER -> FALSE

----------------------------------------------------------------------------
(* String order *)

\* position of x in the sequence q, 0 when absent
Pos(q, x) == IF \E i \in 1..Len(q) : q[i] = x THEN CHOOSE i \in 1..Len(q) : q[i] = x ELSE 0

\* the characters of the model in UTF-16 code unit order
CodeUnits ==
    <<" ", "#", "+", "-", ".", "/", "0", "1", "2", "3", "4", "5", "6", "7", "8", "9",
      ":", "?", "@",
      "A", "B", "C", "D", "E", "F", "G", "H", "I", "J", "K", "L", "M",
      "N", "O", "P", "Q", "R", "S", "T", "U", "V", "W", "X", "Y", "Z",
      "[", "]", "_",
      "a", "b", "c", "d", "e", "f", "g", "h", "i", "j", "k", "l", "m",
      "n", "o", "p", "q", "r", "s", "t", "u", "v", "w", "x", "y", "z">>

\* a < b in code unit order (the default order of Array.prototype.sort)
RECURSIVE CodeUnitLess(_, _)
CodeUnitLess(a, b) ==
    IF a = <<>> THEN b # <<>>
    ELSE IF b = <<>> THEN FALSE
    ELSE IF a[1] = b[1] THEN CodeUnitLess(Tail(a), Tail(b))
    ELSE Pos(CodeUnits, a[1]) < Pos(CodeUnits, b[1])

\* c.toLowerCase() for one character
LowerChar(c) ==
    IF c \in UpperAlpha
    THEN CodeUnits[Pos(CodeUnits, c) + (Pos(CodeUnits, "a") - Pos(CodeUnits, "A"))]
    ELSE c

\* s.toLowerCase()
ToLowerCase(s) == [i \in 1..Len(s) |-> LowerChar(s[i])]

\* the primary collation order of the characters of the model: punctuation,
\* digits, letters without regard to case
Collation ==
    <<" ", "_", "-", ":", "?", ".", "[", "]", "@", "/", "#", "+",
      "0", "1", "2", "3", "4", "5", "6", "7", "8", "9",
      "a", "b", "c", "d", "e", "f", "g", "h", "i", "j", "k", "l", "m",
      "n", "o", "p", "q", "r", "s", "t", "u", "v", "w", "x", "y", "z">>

RECURSIVE PrimaryLess(_, _)
PrimaryLess(a, b) ==
    IF a = <<>> THEN b # <<>>
    ELSE IF b = <<>> THEN FALSE
    ELSE IF a[1] = b[1] THEN PrimaryLess(Tail(a), Tail(b))
    ELSE Pos(Collation, a[1]) < Pos(Collation, b[1])

\* lower case sorts before upper case at the first difference in case
RECURSIVE CaseLess(_, _)
CaseLess(a, b) ==
    IF a = <<>> \/ b = <<>> THEN FALSE
    ELSE IF a[1] = b[1] THEN CaseLess(Tail(a), Tail(b))
    ELSE a[1] \in LowerAlpha

\* a.localeCompare(b) < 0
LocaleLess(a, b) ==
    LET la == ToLowerCase(a)
        lb == ToLowerCase(b)
    IN  IF la = lb THEN CaseLess(a, b) ELSE PrimaryLess(la, lb)

\* the comparator (a, b) => a.length - b.length || a.localeCompare(b), as a < b
TermLess(a, b) == Len(a) < Len(b) \/ (Len(a) = Len(b) /\ LocaleLess(a, b))

\* keys.sort(comparator): the strings of S in the order of TermLess
RECURSIVE SortTerms(_)
SortTerms(S) ==
    IF S = {} THEN <<>>
    ELSE LET m == CHOOSE x \in S : \A y \in S \ {x} : TermLess(x, y)
         IN  <<m>> \o SortTerms(S \ {m})

\* array.sort() of an array of strings
RECURSIVE SortArray(_)
SortArray(a) ==
    IF a = <<>> THEN <<>>
    ELSE LET i == CHOOSE i \in 1..Len(a) :
                    /\ \A j \in 1..Len(a) : ~CodeUnitLess(a[j], a[i])
                    /\ \A j \in 1..(i - 1) : a[j] # a[i]
             rest == [j \in 1..(Len(a) - 1) |-> IF j < i THEN a[j] ELSE a[j + 1]]
         IN  <<a[i]>> \o SortArray(rest)

----------------------------------------------------------------------------
(* Inverse Context Creation and Term Selection (src/src/algorithms/context.ts) *)

\* the strings of an array of string values
Strings(a) == [i \in 1..Len(a) |-> a[i].v]

\* the array of string values of the strings q
StrArray(q) == Arr([i \in 1..Len(q) |-> Str(q[i])])

\* m.set(k, x) unless m.has(k)
SetIfAbsent(m, k, x) == IF k \in DOMAIN m THEN m ELSE Put(m, k, x)

\* step 3.2: the container key of a definition, and the container mapping as
\* Array.prototype.sort leaves it (it sorts the array in place)
ContainerKey(definition) ==
    LET containerMapping == Get(definition, "@container") IN
    IF Truthy(containerMapping)
    THEN IF containerMapping.t = "array"
         THEN Join(SortArray(Strings(containerMapping.v)))
         ELSE containerMapping.v
    ELSE K_none

SortedInPlace(definition) ==
    LET containerMapping == Get(definition, "@container") IN
    IF Truthy(containerMapping) /\ containerMapping.t = "array"
    THEN Put(definition, "@container", StrArray(SortArray(Strings(containerMapping.v))))
    ELSE definition

\* steps 3.10 - 3.17: the entries one term adds to its type/language map
AddTerm(typeLanguageMap, definition, key, defaultLanguage, defaultBaseDirection) ==
    LET languageMap == typeLanguageMap["@language"]
        typeMap == typeLanguageMap["@type"]
        type == Get(definition, "@type")
        language == Get(definition, "@language")
        direction == Get(definition, "@direction")
        with(lm, tm) == [typeLanguageMap EXCEPT !["@language"] = lm, !["@type"] = tm]
    IN  IF Truthy(definition["@reverse"])
        THEN with(languageMap, SetIfAbsent(typeMap, K_reverse, key))
        ELSE IF Truthy(type) /\ type = Str(K_none)
        THEN with(SetIfAbsent(languageMap, K_any, key), SetIfAbsent(typeMap, K_any, key))
        ELSE IF Truthy(type)
        THEN with(languageMap, SetIfAbsent(typeMap, type.v, key))
        ELSE IF Truthy(language) /\ Truthy(direction)
        THEN with(SetIfAbsent(languageMap,
                              ToLowerCase(language.v \o <<"_">> \o direction.v), key),
                  typeMap)
        ELSE IF Truthy(language)
        THEN with(SetIfAbsent(languageMap, ToLowerCase(language.v), key), typeMap)
        ELSE IF Truthy(direction)
        THEN with(SetIfAbsent(languageMap, <<"_">> \o direction.v, key), typeMap)
        ELSE IF Truthy(defaultBaseDirection)
        THEN with(SetIfAbsent(
                      SetIfAbsent(languageMap,
                                  ToLowerCase(defaultLanguage \o <<"_">> \o defaultBaseDirection.v),
                                  key),
                      K_none, key),
                  SetIfAbsent(typeMap, K_none, key))
        ELSE with(SetIfAbsent(SetIfAbsent(languageMap, defaultLanguage, key), K_none, key),
                  SetIfAbsent(typeMap, K_none, key))

\* step 3: the loop over the sorted keys; acc holds `result` and the term
\* definitions as the loop has left them
RECURSIVE InverseLoop(_, _, _, _)
InverseLoop(keys, acc, defaultLanguage, defaultBaseDirection) ==
    IF keys = <<>> THEN acc
    ELSE
    LET key == Head(keys)
        definition == Get(acc.termDefinitions, key)
    IN  IF definition.t \in {"undefined", "null"}
        THEN InverseLoop(Tail(keys), acc, defaultLanguage, defaultBaseDirection)
        ELSE
        LET def == definition.v
            container == ContainerKey(def)
            variable == def["@id"]
            containerMap == IF variable \in DOMAIN acc.result
                            THEN acc.result[variable] ELSE EmptyMap
            typeLanguageMap ==
                IF container \in DOMAIN containerMap
                THEN containerMap[container]
                ELSE [k \in {"@language", "@type", "@any"} |->
                         IF k = "@any" THEN Put(EmptyMap, K_none, key) ELSE EmptyMap]
            filled == AddTerm(typeLanguageMap, def, key, defaultLanguage, defaultBaseDirection)
        IN  InverseLoop(
                Tail(keys),
                [result |-> Put(acc.result, variable, Put(containerMap, container, filled)),
                 termDefinitions |-> Put(acc.termDefinitions, key, Obj(SortedInPlace(def)))],
                defaultLanguage, defaultBaseDirection)

\* the sorted keys of the Map itself, as [...termDefinitions.keys()] would give
SortedTermKeys_MapKeys(termDefinitions) == SortTerms(DOMAIN termDefinitions.v)

\* Object.keys(activeContext.termDefinitions).sort(...)
SortedTermKeys(termDefinitions) == SortTerms(ObjectKeys(termDefinitions))

\* createInverseContext: its result, and the term definitions as it leaves them
InverseBuild(context) ==
    LET defaultLanguage ==
            IF Truthy(context.defaultLanguage)
            THEN ToLowerCase(context.defaultLanguage.v) ELSE K_none
    IN  InverseLoop(SortedTermKeys(context.termDefinitions),
                    [result |-> EmptyMap, termDefinitions |-> context.termDefinitions.v],
                    defaultLanguage, context.defaultBaseDirection)

createInverseContext(context) == MapOf(InverseBuild(context).result)

\* a scan that keeps the last preferred value with an entry in valueMap
RECURSIVE ScanValues_Last(_, _)
ScanValues_Last(valueMap, preferredValues) ==
    IF preferredValues = <<>> THEN Null
    ELSE LET later == ScanValues_Last(valueMap, Tail(preferredValues)) IN
         IF later # Null THEN later
         ELSE IF Head(preferredValues) \in DOMAIN valueMap
         THEN Str(valueMap[Head(preferredValues)])
         ELSE Null

\* step 4.4 of selectTerm: the first preferred value with an entry in valueMap
RECURSIVE ScanValues(_, _)
ScanValues(valueMap, preferredValues) ==
    IF preferredValues = <<>> THEN Null
    ELSE IF Head(preferredValues) \in DOMAIN valueMap
    THEN Str(valueMap[Head(preferredValues)])
    ELSE ScanValues(valueMap, Tail(preferredValues))

\* step 4 of selectTerm: the loop over the containers
RECURSIVE ScanContainers(_, _, _, _)
ScanContainers(containerMap, containers, typeLanguage, preferredValues) ==
    IF containers = <<>> THEN Null
    ELSE
    LET container == Head(containers)
        rest == ScanContainers(containerMap, Tail(containers), typeLanguage, preferredValues)
    IN  IF containerMap.t = "undefined" \/ container \notin DOMAIN containerMap.v
        THEN rest
        ELSE
        LET typeLanguageMap == containerMap.v[container]
            valueMap == IF typeLanguage \in DOMAIN typeLanguageMap
                        THEN typeLanguageMap[typeLanguage] ELSE EmptyMap
            hit == ScanValues(valueMap, preferredValues)
        IN  IF hit # Null THEN hit ELSE rest

\* the active context as step 1 of selectTerm leaves it
WithInverseContext(context) ==
    IF context.inverseContext = Null
    THEN [context EXCEPT !.inverseContext = createInverseContext(context),
                         !.termDefinitions = MapOf(InverseBuild(context).termDefinitions)]
    ELSE context

\* selectTerm: the term it returns (null when none)
selectTerm(context, varKeywordIri, containers, typeLanguage, preferredValues) ==
    LET inverseContext == WithInverseContext(context).inverseContext.v
        containerMap == IF varKeywordIri \in DOMAIN inverseContext
                        THEN MapOf(inverseContext[varKeywordIri]) ELSE Undefined
    IN  ScanContainers(containerMap, containers, typeLanguage, preferredValues)

----------------------------------------------------------------------------
(* Collaborators of createTermDefinition *)

\* the regular expression of isAbsoluteIri: ^([A-Za-z][A-Za-z0-9+-.]*|_):[^\s]*$
\* (the class +-. is the range from "+" to ".", which holds "," as well)
SchemeChars == Alpha \cup Digit \cup {"+", ",", "-", "."}
AbsoluteIriForm(s) ==
    LET i == IndexOf(s, ":")
        scheme == SubSeq(s, 1, i - 1)
    IN  /\ i > 0
        /\ \/ scheme = <<"_">>
           \/ /\ Len(scheme) >= 1
              /\ scheme[1] \in Alpha
              /\ \A j \in 2..Len(scheme) : scheme[j] \in SchemeChars
        /\ \A j \in (i + 1)..Len(s) : s[j] \notin Space

\* isAbsoluteIri(value): RegExp.prototype.test converts its argument to a string
isAbsoluteIri(value) == AbsoluteIriForm(ToStr(value))

\* expandIri: the body of the function holds no statement, it returns undefined
expandIri(context, value, documentRelative, vocab, localContext, definedMap) == Undefined

\* processContext: the body of the function holds no statement; it returns
\* undefined, changes nothing and raises nothing
processContext(context, localContext, baseURL, remoteContexts, overrideProtected, propagate, validateScopedContext) ==
    Undefined

Mode10 == <<"j", "s", "o", "n", "-", "l", "d", "-", "1", ".", "0">>
Mode11 == <<"j", "s", "o", "n", "-", "l", "d", "-", "1", ".", "1">>
V10 == <<"1", ".", "0">>

\* checkVersion(processingMode, version): the mode names the version
checkVersion(processingMode, version) ==
    /\ processingMode.t = "string"
    /\ Len(processingMode.v) >= Len(version)
    /\ SubSeq(processingMode.v, Len(processingMode.v) - Len(version) + 1,
              Len(processingMode.v)) = version

\* activeContext.processingMode && checkVersion(activeContext.processingMode, 1.0)
IsMode10(context) ==
    Truthy(context.processingMode) /\ checkVersion(context.processingMode, V10)

\* value[key] for a value whose typeof is "object"
Prop(value, key) == IF HasKey(value, key) THEN value.v[key] ELSE Undefined

\* Keywords.includes(x)
IsKeyword(x) == x.t = "string" /\ x.v \in Keywords

\* array.includes(k) for an array of strings
ArrayIncludes(array, k) == \E i \in 1..Len(array.v) : array.v[i] = Str(k)

----------------------------------------------------------------------------
(* Create Term Definition (src/src/algorithms/context.ts) *)

\* The progress of one call: the term definitions and the `defined` map as the
\* call has left them so far, the `definition` under construction, and how the
\* call ended: status "run" while it has not, "return" or "throw" once it has,
\* with the message of the error and the step of the procedure it ended in.
Throw(s, error, step) == [s EXCEPT !.status = "throw", !.error = error, !.step = step]
Return(s, step) == [s EXCEPT !.status = "return", !.step = step]
SetField(s, key, x) == [s EXCEPT !.definition = Put(s.definition, key, x)]

\* the active context as the call has left it so far
Current(context, s) == [context EXCEPT !.termDefinitions = MapOf(s.termDefinitions)]

\* step 4: the value a redefinition of @type must have
TypeTermRejected(value) ==
    \/ TypeOf(value) # "object"
    \/ value.t = "null"
    \/ \E key \in ObjectKeys(value) : key \notin {"@container", "@protected"}
    \/ (Truthy(Prop(value, "@container")) /\ Prop(value, "@container") # Str(K_set))
    \/ (Prop(value, "@protected") # Undefined /\ TypeOf(Prop(value, "@protected")) # "boolean")

\* step 10
NewDefinition(termProtected) ==
    [k \in {"@id", "@base", "@prefix", "@protected", "@reverse"} |->
        CASE k = "@id" -> Str(<<>>)
          [] k = "@base" -> Str(<<>>)
          [] k = "@prefix" -> False
          [] k = "@protected" -> Bool(termProtected)
          [] OTHER -> False]

\* step 11
ProtectedStep(s, value, context) ==
    IF s.status # "run" \/ ~HasKey(value, "@protected") THEN s
    ELSE IF TypeOf(value.v["@protected"]) # "boolean"
    THEN Throw(s, "Invalid @protected value.", 11)
    ELSE IF IsMode10(context)
    THEN Throw(SetField(s, "@protected", value.v["@protected"]), "Invalid term definition.", 11)
    ELSE SetField(s, "@protected", value.v["@protected"])

\* step 12
TypeStep(s, value, context, localContext) ==
    IF s.status # "run" \/ ~HasKey(value, "@type") THEN s
    ELSE IF TypeOf(value.v["@type"]) # "string"
    THEN Throw(s, "Invalid type mapping.", 12)
    ELSE
    LET type == expandIri(Current(context, s), value.v["@type"], FALSE, TRUE, localContext, s.defined)
    IN  IF type = Str(K_json) \/ type = Str(K_none)
        THEN IF IsMode10(context)
             THEN Throw(s, "Invalid type mapping.", 12)
             ELSE SetField(s, "@type", type)
        ELSE IF type # Str(K_id) /\ type # Str(K_vocab) /\ ~isAbsoluteIri(type)
        THEN Throw(s, "Invalid type mapping.", 12)
        ELSE SetField(s, "@type", type)

\* step 13
ReverseStep(s, value, term, context, localContext) ==
    IF s.status # "run" \/ ~HasKey(value, "@reverse") THEN s
    ELSE IF HasKey(value, "@id") \/ HasKey(value, "@nest")
    THEN Throw(s, "Invalid reverse property.", 13)
    ELSE
    LET reverse == value.v["@reverse"] IN
    IF TypeOf(reverse) # "string" THEN Throw(s, "Invalid IRI mapping.", 13)
    ELSE IF KeywordForm(reverse.v) THEN Return(s, 13)
    ELSE
    LET expandedReverse == expandIri(Current(context, s), reverse, FALSE, TRUE, localContext, s.defined)
    IN  IF ~isAbsoluteIri(expandedReverse) THEN Throw(s, "Invalid IRI mapping.", 13)
        ELSE IF HasKey(value, "@container")
        THEN LET container == value.v["@container"] IN
             IF container # Str(K_set) /\ container # Str(K_index) /\ container # Null
             THEN Throw(s, "Invalid reverse property.", 13)
             ELSE LET d == Put(Put(s.definition, "@container",
                                   IF container = Null THEN Null ELSE Arr(<<container>>)),
                               "@reverse", True)
                  IN  Return([s EXCEPT !.definition = d,
                                       !.termDefinitions = Put(@, term, Obj(d)),
                                       !.defined = Put(@, term, TRUE)], 13)
        ELSE s

\* step 19 without the default type mapping of a container that includes @type
ContainerStep_NoDefault(s, value) ==
    IF s.status # "run" \/ ~HasKey(value, "@container") THEN s
    ELSE
    LET container == value.v["@container"] IN
    IF ~Truthy(container) \/ container = Null \/ ~isContainer(container)
    THEN Throw(s, "Invalid container mapping.", 19)
    ELSE SetField(s, "@container",
                  IF container.t = "array" THEN container ELSE Arr(<<container>>))

\* step 19 without the test that rejects a null container
ContainerStep_NullAccepted(s, value) ==
    IF s.status # "run" \/ ~HasKey(value, "@container") THEN s
    ELSE
    LET container == value.v["@container"] IN
    IF ~isContainer(container)
    THEN Throw(s, "Invalid container mapping.", 19)
    ELSE
    LET mapping == IF container.t = "array" THEN container ELSE Arr(<<container>>)
        s1 == SetField(s, "@container", mapping)
    IN  IF ArrayIncludes(mapping, K_type)
        THEN IF ~Truthy(Get(s1.definition, "@type"))
             THEN SetField(s1, "@type", Str(K_id))
             ELSE IF s1.definition["@type"] # Str(K_id) /\ s1.definition["@type"] # Str(K_vocab)
             THEN Throw(s1, "Invalid type mapping.", 19)
             ELSE s1
        ELSE s1

\* step 19
ContainerStep(s, value) ==
    IF s.status # "run" \/ ~HasKey(value, "@container") THEN s
    ELSE
    LET container == value.v["@container"] IN
    IF ~Truthy(container) \/ container = Null \/ ~isContainer(container)
    THEN Throw(s, "Invalid container mapping.", 19)
    ELSE
    LET mapping == IF container.t = "array" THEN container ELSE Arr(<<container>>)
        s1 == SetField(s, "@container", mapping)
    IN  IF ArrayIncludes(mapping, K_type)
        THEN IF ~Truthy(Get(s1.definition, "@type"))
             THEN SetField(s1, "@type", Str(K_id))
             ELSE IF s1.definition["@type"] # Str(K_id) /\ s1.definition["@type"] # Str(K_vocab)
             THEN Throw(s1, "Invalid type mapping.", 19)
             ELSE s1
        ELSE s1

\* step 20
IndexStep(s, value, context, localContext) ==
    IF s.status # "run" \/ ~HasKey(value, "@index") THEN s
    ELSE IF IsMode10(context) THEN Throw(s, "Invalid term definition.", 20)
    ELSE IF \/ ~Truthy(Get(s.definition, "@container"))
            \/ ~ArrayIncludes(s.definition["@container"], K_index)
    THEN Throw(s, "Invalid term definition.", 20)
    ELSE
    LET index == value.v["@index"]
        expandedIndex == expandIri(Current(context, s), index, FALSE, TRUE, localContext, s.defined)
    IN  IF ~isAbsoluteIri(expandedIndex) THEN Throw(s, "Invalid term definition.", 20)
        ELSE SetField(s, "@index", index)

\* step 21
ContextStep(s, value, context, baseURL, remoteContexts) ==
    IF s.status # "run" \/ ~HasKey(value, "@context") THEN s
    ELSE IF IsMode10(context) THEN Throw(s, "Invalid term definition.", 21)
    ELSE IF TypeOf(value.v["@context"]) # "object" THEN Throw(s, "Invalid term definition.", 21)
    ELSE
    \* processContext raises nothing, so the catch clause is never entered
    LET validated == processContext(Current(context, s),
                                    value.v["@context"], baseURL, remoteContexts,
                                    TRUE, FALSE, FALSE)
    IN  SetField(SetField(s, "@context", value.v["@context"]), "@base", baseURL)

\* step 14, for a value whose @id entry differs from the term
IdStep(s, value, term, simpleTerm, context, localContext) ==
    LET id == value.v["@id"] IN
    IF ~Truthy(id) THEN s
    ELSE IF TypeOf(id) # "string" THEN Throw(s, "Invalid IRI mapping.", 14)
    ELSE IF ~IsKeyword(id) /\ KeywordForm(id.v) THEN Return(s, 14)
    ELSE
    LET expandedId == expandIri(Current(context, s), id, FALSE, TRUE, localContext, s.defined)
        s1 == SetField(s, "@id", expandedId)
    IN  IF expandedId = Str(K_context) THEN Throw(s1, "Invalid keyword alias.", 14)
        ELSE IF ~IsKeyword(expandedId) /\ ~isAbsoluteIri(expandedId)
        THEN Throw(s1, "Invalid IRI mapping.", 14)
        ELSE
        LET compact == \/ (Includes(term, ":") /\ term[1] # ":" /\ term[Len(term)] # ":")
                       \/ Includes(term, "/")
            s2 == IF compact THEN [s1 EXCEPT !.defined = Put(@, term, TRUE)] ELSE s1
        IN  IF compact /\ expandIri(Current(context, s), Str(term), FALSE, TRUE, localContext, s2.defined)
                              # expandedId
            THEN Throw(s2, "Invalid IRI mapping.", 14)
            ELSE IF /\ ~Includes(term, ":") /\ ~Includes(term, "/")
                    /\ simpleTerm /\ EndsWithGenDelim(id.v)
            THEN SetField(s2, "@prefix", True)
            ELSE s2

\* step 15, once the call for the prefix has ended as `sub`
PrefixStep(s, sub, term) ==
    LET parts == Split(term, ":")
        after == [s EXCEPT !.termDefinitions = sub.termDefinitions,
                           !.defined = sub.defined,
                           !.started = @ \o sub.started]
        prefixDefinition == Get(sub.termDefinitions, parts[1])
    IN  IF sub.status = "throw" THEN Throw(after, sub.error, sub.step)
        ELSE IF Truthy(prefixDefinition)
        THEN SetField(after, "@id", Str(ToStr(Prop(prefixDefinition, "@id")) \o parts[2]))
        ELSE SetField(after, "@id", Str(term))

\* steps 16 - 18, for a term without a colon after its first character
PlainTermStep(s, term, context, localContext) ==
    \* 16
    IF Includes(term, "/")
    THEN LET expanded == expandIri(Current(context, s), Str(term), FALSE, TRUE,
                                   localContext, s.defined)
         IN  IF ~isAbsoluteIri(expanded)
             THEN Throw(SetField(s, "@id", expanded), "Invalid IRI mapping.", 16)
             ELSE SetField(s, "@id", expanded)
    \* 17
    ELSE IF term = K_type THEN SetField(s, "@id", Str(K_type))
    \* 18
    ELSE IF Truthy(context.vocabularyMapping)
    THEN SetField(s, "@id", Str(context.vocabularyMapping.v \o term))
    ELSE Throw(s, "Invalid IRI mapping.", 18)

\* steps 1 - 5 without the early return of a term already defined
EntrySteps_IgnoreDefined(s, context, localContext, term) ==
    IF term \in DOMAIN s.defined /\ s.defined[term] = FALSE
    THEN Throw(s, "Cyclic IRI mapping detected.", 1)
    ELSE IF term = <<>> THEN Throw(s, "Invalid term definition.", 2)
    ELSE
    LET s2 == [s EXCEPT !.defined = Put(@, term, FALSE), !.started = Append(@, term)] IN
    IF term = K_type /\ IsMode10(context) THEN Throw(s2, "Keyword redefinition error.", 4)
    ELSE IF term = K_type /\ TypeTermRejected(Get(localContext, term))
    THEN Throw(s2, "Keyword redefinition error.", 4)
    ELSE IF term # K_type /\ term \in Keywords THEN Throw(s2, "Keyword redefinition error.", 5)
    ELSE IF term # K_type /\ KeywordForm(term) THEN Return(s2, 5)
    ELSE s2

\* steps 1 - 5 without the error for a term whose definition is under way
EntrySteps_NoCycleCheck(s, context, localContext, term) ==
    IF term \in DOMAIN s.defined /\ s.defined[term] = TRUE THEN Return(s, 1)
    ELSE IF term = <<>> THEN Throw(s, "Invalid term definition.", 2)
    ELSE
    LET s2 == [s EXCEPT !.defined = Put(@, term, FALSE), !.started = Append(@, term)] IN
    IF term = K_type /\ IsMode10(context) THEN Throw(s2, "Keyword redefinition error.", 4)
    ELSE IF term = K_type /\ TypeTermRejected(Get(localContext, term))
    THEN Throw(s2, "Keyword redefinition error.", 4)
    ELSE IF term # K_type /\ term \in Keywords THEN Throw(s2, "Keyword redefinition error.", 5)
    ELSE IF term # K_type /\ KeywordForm(term) THEN Return(s2, 5)
    ELSE s2

\* steps 1 - 5: how the call ends there, status "run" when it goes on
EntrySteps(s, context, localContext, term) ==
    \* 1
    IF term \in DOMAIN s.defined /\ s.defined[term] = TRUE THEN Return(s, 1)
    ELSE IF term \in DOMAIN s.defined /\ s.defined[term] = FALSE
    THEN Throw(s, "Cyclic IRI mapping detected.", 1)
    \* 2
    ELSE IF term = <<>> THEN Throw(s, "Invalid term definition.", 2)
    ELSE
    LET s2 == [s EXCEPT !.defined = Put(@, term, FALSE), !.started = Append(@, term)] IN
    \* 3 & 4
    IF term = K_type /\ IsMode10(context) THEN Throw(s2, "Keyword redefinition error.", 4)
    ELSE IF term = K_type /\ TypeTermRejected(Get(localContext, term))
    THEN Throw(s2, "Keyword redefinition error.", 4)
    \* 5
    ELSE IF term # K_type /\ term \in Keywords THEN Throw(s2, "Keyword redefinition error.", 5)
    ELSE IF term # K_type /\ KeywordForm(term) THEN Return(s2, 5)
    ELSE s2

\* steps 6 - 10
PreviousStep(s, value0, term, termProtected) ==
    IF s.status # "run" THEN s
    ELSE
    \* 6
    LET s6 == IF Truthy(Get(s.termDefinitions, term))
              THEN [s EXCEPT !.termDefinitions = Del(@, term)] ELSE s
    IN  \* 7 - 9
        IF value0.t # "null" /\ TypeOf(value0) # "string" /\ TypeOf(value0) # "object"
        THEN Throw(s6, "Invalid term definition.", 9)
        \* 10
        ELSE [s6 EXCEPT !.definition = NewDefinition(termProtected)]

\* steps 7 & 8: the value of a simple term becomes a map with its @id
IsSimpleTerm(value0) == value0.t = "null" \/ TypeOf(value0) = "string"
TermValue(value0) == IF IsSimpleTerm(value0) THEN Obj(Put(EmptyMap, "@id", value0)) ELSE value0

\* the end of the function: steps 22 - 28 are comments
EndStep(s) == IF s.status = "run" THEN Return(s, 28) ELSE s

\* step 15 is taken, and it calls createTermDefinition for the prefix of the term
CallsForPrefix(s, value, term, localContext) ==
    /\ s.status = "run"
    /\ ~(HasKey(value, "@id") /\ value.v["@id"] # Str(term))
    /\ Includes(term, ":") /\ term[1] # ":"
    /\ Truthy(Get(localContext, Split(term, ":")[1]))

\* steps 14 - 18; `sub` is the outcome of the call for the prefix when step 15 makes it
MappingStep(s, sub, value, term, simpleTerm, context, localContext) ==
    IF s.status # "run" THEN s
    \* 14
    ELSE IF HasKey(value, "@id") /\ value.v["@id"] # Str(term)
    THEN IdStep(s, value, term, simpleTerm, context, localContext)
    \* 15
    ELSE IF Includes(term, ":") /\ term[1] # ":"
    THEN IF Truthy(Get(localContext, Split(term, ":")[1]))
         THEN PrefixStep(s, sub, term)
         ELSE SetField(s, "@id", Str(term))
    \* 16 - 18
    ELSE PlainTermStep(s, term, context, localContext)

\* steps 1 - 13, each applied to the outcome of the step before it
EarlySteps(context, localContext, term, definedMap, termProtected) ==
    LET value0 == Get(localContext, term)
        value == TermValue(value0)
        entry == [termDefinitions |-> context.termDefinitions.v,
                  defined |-> definedMap,
                  definition |-> EmptyMap,
                  status |-> "run", error |-> "", step |-> 0,
                  \* the terms whose definition this call has started, in order
                  started |-> <<>>]
    IN  CHOOSE s13 \in
          {ReverseStep(s12, value, term, context, localContext) : s12 \in
            {TypeStep(s11, value, context, localContext) : s11 \in
              {ProtectedStep(s10, value, context) : s10 \in
                {PreviousStep(s5, value0, term, termProtected) : s5 \in
                  {EntrySteps(entry, context, localContext, term)}}}}} : TRUE

\* steps 19 - 21 and the end of the function
LateSteps(s18, value, context, localContext, baseURL, remoteContexts) ==
    CHOOSE s28 \in
      {EndStep(s21) : s21 \in
        {ContextStep(s20, value, context, baseURL, remoteContexts) : s20 \in
          {IndexStep(s19, value, context, localContext) : s19 \in
            {ContainerStep(s, value) : s \in {s18}}}}} : TRUE

RECURSIVE createTermDefinition(_, _, _, _, _, _, _, _, _)
createTermDefinition(context, localContext, term, definedMap, baseURL, termProtected, overrideProtected, remoteContexts, validateScopedContext) ==
    LET value0 == Get(localContext, term)
        value == TermValue(value0)
    IN  CHOOSE s28 \in UNION
          {{LateSteps(MappingStep(s13, sub, value, term, IsSimpleTerm(value0),
                                  context, localContext),
                      value, context, localContext, baseURL, remoteContexts) : sub \in
              {IF CallsForPrefix(s13, value, term, localContext)
               THEN createTermDefinition(
                        Current(context, s13), localContext, Split(term, ":")[1],
                        s13.defined, baseURL, termProtected, overrideProtected,
                        remoteContexts, validateScopedContext)
               ELSE s13}} : s13 \in
            {EarlySteps(context, localContext, term, definedMap, termProtected)}} : TRUE

----------------------------------------------------------------------------
(* Inputs of the shape predicates *)

\* all sequences over S of length at most n
RECURSIVE SeqsUpTo(_, _)
SeqsUpTo(S, n) ==
    IF n = 0 THEN {<<>>}
    ELSE LET shorter == SeqsUpTo(S, n - 1) IN
         shorter \cup {<<x>> \o s : x \in S, s \in {q \in shorter : Len(q) = n - 1}}

IdChars == {"_", ":", "b"}
IdValues == {Null, Num(1)} \cup {Str(s) : s \in SeqsUpTo(IdChars, MaxStrLen)}
ShapeKeys == {"@id", "@value", "@list", "@set", "@graph", "@index", "p"}

\* maps of at most MaxKeys keys; the predicates read no value but that of @id
ShapeMaps ==
    UNION {
        IF "@id" \in K
        THEN {Obj([k \in K |-> IF k = "@id" THEN id ELSE Num(1)]) : id \in IdValues}
        ELSE {Obj([k \in K |-> Num(1)])}
        : K \in {K \in SUBSET ShapeKeys : Cardinality(K) <= MaxKeys}}

ShapeValues ==
    ShapeMaps \cup {Undefined, Null, Num(1), True, Str(<<"b">>),
                    Arr(<<>>), Arr(<<Num(1)>>), Arr(<<Num(1), Num(1)>>)}

ContainerWords == ContainerKeywords \cup {K_vocab}
ContainerValues ==
    {Null} \cup {Str(k) : k \in ContainerWords}
           \cup {Arr(a) : a \in SeqsUpTo({Str(k) : k \in ContainerWords}, MaxContainerLen)}

Pending == [done |-> FALSE]

\* an active context: its term definitions (a Map), its inverse context (null
\* or a Map) and the fields the algorithms read
Context(termDefinitions, inverseContext, processingMode, vocabularyMapping) ==
    [termDefinitions |-> MapOf(termDefinitions),
     inverseContext |-> inverseContext,
     processingMode |-> processingMode,
     vocabularyMapping |-> vocabularyMapping,
     defaultLanguage |-> Undefined,
     defaultBaseDirection |-> Undefined]

IdleContext == Context(EmptyMap, Null, Undefined, Undefined)
IdleRet == [op |-> "none", term |-> <<>>, overrideProtected |-> FALSE,
            status |-> "return", error |-> "", step |-> 0, result |-> Undefined]

\* the part of the state a specification of a single function leaves alone
Idle ==
    /\ activeContext = IdleContext
    /\ localCtx = EmptyMap
    /\ defined = EmptyMap
    /\ ret = IdleRet

----------------------------------------------------------------------------
(* The shape predicates applied to one value *)

InitShape == Idle /\ arg \in ShapeValues /\ out = Pending

Classify ==
    /\ out = Pending
    /\ out' = [done |-> TRUE,
               isSubject |-> isSubject(arg),
               isSubjectRef |-> isSubjectRef(arg),
               isValueObject |-> isValueObject(arg),
               isListObject |-> isListObject(arg),
               isGraphObject |-> isGraphObject(arg),
               isSimpleGraph |-> isSimpleGraph(arg),
               isBlankNode |-> isBlankNode(arg)]
    /\ UNCHANGED <<activeContext, localCtx, defined, ret, arg>>

NextShape == Classify

SpecShape == InitShape /\ [][NextShape]_vars

(* isContainer applied to one value *)

InitContainer == Idle /\ arg \in ContainerValues /\ out = Pending

CheckContainer ==
    /\ out = Pending
    /\ out' = [done |-> TRUE, isContainer |-> isContainer(arg)]
    /\ UNCHANGED <<activeContext, localCtx, defined, ret, arg>>

NextContainer == CheckContainer

SpecContainer == InitContainer /\ [][NextContainer]_vars

----------------------------------------------------------------------------
(* Runs of the context algorithms on one active context *)

T_a == <<"a">>
T_b == <<"b">>
T_ab == <<"a", ":", "b">>
T_at == <<"@", "x">>
Iri_a == <<"a", ":", "x">>
Iri_b == <<"b", ":", "x">>
Vocab == <<"v", ":">>

\* all maps from at most n of the keys K to the values V
MapsUpTo(K, V, n) ==
    UNION {[D -> V] : D \in {D \in SUBSET K : Cardinality(D) <= n}}

\* a term definition as step 10 lays it out, with an IRI mapping
Definition(id, protected) == Put(NewDefinition(protected), "@id", Str(id))

\* the term definitions an active context starts with
InitialDefinitions ==
    {EmptyMap,
     Put(EmptyMap, T_a, Obj(Definition(Iri_a, TRUE))),
     Put(EmptyMap, T_a, Obj(Definition(Iri_a, FALSE))),
     Put(Put(EmptyMap, T_a, Obj(Definition(Iri_a, TRUE))), T_b, Obj(Definition(Iri_b, FALSE)))}

InitialContexts ==
    {Context(td, Null, Str(Mode11), vocabularyMapping) :
        td \in InitialDefinitions, vocabularyMapping \in {Undefined, Str(Vocab)}}

\* the local context of a run: T_a and T_b defined by null, by a compact IRI
\* under the other or the same term, or by an empty map; T_ab, whose prefix is
\* T_a, by an empty map
LocalValues == {Null, Str(Iri_a), Str(Iri_b), Obj(EmptyMap)}
LocalContexts ==
    {base @@ compact :
        base \in UNION {[D -> LocalValues] : D \in SUBSET {T_a, T_b}},
        compact \in {EmptyMap, Put(EmptyMap, T_ab, Obj(EmptyMap))}}

Init ==
    /\ activeContext \in InitialContexts
    /\ localCtx \in LocalContexts
    /\ defined = EmptyMap
    /\ ret = IdleRet
    /\ arg = <<>>
    /\ out = Pending

\* one call of createTermDefinition on the active context, for a term of the
\* local context of the run
CreateTermDefinition ==
    \E term \in DOMAIN localCtx, termProtected \in BOOLEAN, overrideProtected \in BOOLEAN :
        LET r == createTermDefinition(activeContext, localCtx, term, defined,
                                      Str(<<>>), termProtected, overrideProtected,
                                      EmptyMap, TRUE)
        IN  /\ activeContext' = [activeContext EXCEPT
                                    !.termDefinitions = MapOf(r.termDefinitions)]
            /\ defined' = r.defined
            /\ ret' = [op |-> "createTermDefinition", term |-> term,
                       overrideProtected |-> overrideProtected,
                       status |-> r.status, error |-> r.error, step |-> r.step,
                       result |-> Undefined]
            /\ UNCHANGED <<localCtx, arg, out>>

\* one call of processContext on the active context with the local context
ProcessContext ==
    \E overrideProtected \in BOOLEAN :
        /\ ret' = [op |-> "processContext", term |-> <<>>,
                   overrideProtected |-> overrideProtected,
                   status |-> "return", error |-> "", step |-> 0,
                   result |-> processContext(activeContext, localCtx, Str(<<>>),
                                             EmptyMap, overrideProtected, TRUE, TRUE)]
        /\ UNCHANGED <<activeContext, localCtx, defined, arg, out>>

SelectIris == {Iri_a, Iri_b}
SelectContainers == {<<K_none>>, <<K_set, K_none>>}
SelectDiscriminators == {"@type", "@language", "@any"}
SelectValues == {<<K_none>>, <<K_id, K_none>>}

\* one call of selectTerm on the active context
SelectTerm ==
    \E iri \in SelectIris, containers \in SelectContainers,
       typeLanguage \in SelectDiscriminators, preferredValues \in SelectValues :
        /\ activeContext' = WithInverseContext(activeContext)
        /\ ret' = [op |-> "selectTerm", term |-> iri, overrideProtected |-> FALSE,
                   status |-> "return", error |-> "", step |-> 5,
                   result |-> selectTerm(activeContext, Str(iri), containers,
                                         typeLanguage, preferredValues)]
        /\ UNCHANGED <<localCtx, defined, arg, out>>

Next == CreateTermDefinition \/ ProcessContext \/ SelectTerm

Spec == Init /\ [][Next]_vars

----------------------------------------------------------------------------
(* createInverseContext applied to one active context *)

T_B == <<"B">>
T_long == <<"a", "b">>
InverseTerms == {T_a, T_b, T_B, T_long}

\* a term definition with the mappings createInverseContext reads
MappedDefinition(id, container, type, reverse) ==
    LET base == Put(Definition(id, FALSE), "@reverse", Bool(reverse))
        contained == IF container = Undefined THEN base
                     ELSE Put(base, "@container", container)
    IN  IF type = Undefined THEN contained ELSE Put(contained, "@type", type)

InverseDefinitions ==
    {Null} \cup
    {Obj(MappedDefinition(id, container, type, reverse)) :
        id \in {Iri_a, Iri_b},
        container \in {Undefined, Arr(<<Str(K_set), Str(K_index)>>)},
        type \in {Undefined, Str(K_id)},
        reverse \in BOOLEAN}

InverseInputs ==
    {Context(td, Null, Undefined, Undefined) :
        td \in MapsUpTo(InverseTerms, InverseDefinitions, MaxTerms)}

InitInverse == Idle /\ arg \in InverseInputs /\ out = Pending

BuildInverse ==
    /\ out = Pending
    /\ out' = [done |-> TRUE,
               result |-> createInverseContext(arg),
               termDefinitions |-> MapOf(InverseBuild(arg).termDefinitions)]
    /\ UNCHANGED <<activeContext, localCtx, defined, ret, arg>>

NextInverse == BuildInverse

SpecInverse == InitInverse /\ [][NextInverse]_vars

(* selectTerm applied to one active context that has an inverse context *)

\* the inverse context the loop of createInverseContext builds over the terms of
\* the term definitions td
Indexed(td) ==
    InverseLoop(SortTerms(DOMAIN td), [result |-> EmptyMap, termDefinitions |-> td],
                K_none, Undefined).result

IndexedDefinitions ==
    {Obj(MappedDefinition(Iri_a, container, type, FALSE)) :
        container \in {Undefined, Arr(<<Str(K_set)>>)},
        type \in {Undefined, Str(K_id)}}

IndexedContexts ==
    {Context(td, MapOf(Indexed(td)), Undefined, Undefined) :
        td \in UNION {[D -> IndexedDefinitions] : D \in SUBSET {T_a, T_b, T_long}}}

SelectInputs ==
    [context : IndexedContexts,
     varKeywordIri : {Str(Iri_a), Str(Iri_b)},
     containers : SeqsUpTo({K_none, K_set}, MaxPrefs),
     typeLanguage : SelectDiscriminators,
     preferredValues : SeqsUpTo({K_none, K_id}, MaxPrefs)]

InitSelect == Idle /\ arg \in SelectInputs /\ out = Pending

Select ==
    /\ out = Pending
    /\ out' = [done |-> TRUE,
               result |-> selectTerm(arg.context, arg.varKeywordIri, arg.containers,
                                     arg.typeLanguage, arg.preferredValues)]
    /\ UNCHANGED <<activeContext, localCtx, defined, ret, arg>>

NextSelect == Select

SpecSelect == InitSelect /\ [][NextSelect]_vars

(* selectTerm applied to one active context that has no inverse context yet *)

Lang_EN == <<"E", "N">>

\* a term definition with a language mapping and no type or direction mapping
LanguageDefinition(id, language) == Put(Definition(id, FALSE), "@language", language)

LookupDefinitions ==
    {Obj(MappedDefinition(id, container, Undefined, reverse)) :
        id \in {Iri_a, Iri_b},
        container \in {Undefined, Arr(<<Str(K_set), Str(K_index)>>)},
        reverse \in BOOLEAN}
    \cup {Obj(LanguageDefinition(Iri_a, language)) : language \in {Str(Lang_EN), Null}}

LookupInputs ==
    [context : {Context(td, Null, Undefined, Undefined) :
                    td \in MapsUpTo({T_a, T_b, T_long}, LookupDefinitions, MaxTerms)},
     varKeywordIri : {Str(Iri_a), Str(Iri_b)}]

InitLookup == Idle /\ arg \in LookupInputs /\ out = Pending

\* one call of selectTerm; `built` is what its call of createInverseContext
\* returns and `builtDefinitions` the term definitions as that call leaves them
Lookup ==
    /\ out = Pending
    /\ out' = [done |-> TRUE,
               result |-> selectTerm(arg.context, arg.varKeywordIri, <<K_none>>,
                                     "@language", <<K_none>>),
               built |-> createInverseContext(arg.context),
               builtDefinitions |-> MapOf(InverseBuild(arg.context).termDefinitions),
               context |-> WithInverseContext(arg.context)]
    /\ UNCHANGED <<activeContext, localCtx, defined, ret, arg>>

NextLookup == Lookup

SpecLookup == InitLookup /\ [][NextLookup]_vars

(* Runs on an active context that comes with the inverse context of its term
   definitions *)

InitStale ==
    /\ activeContext \in
          {Context(td, MapOf(Indexed(td)), Str(Mode11), vocabularyMapping) :
              td \in InitialDefinitions, vocabularyMapping \in {Undefined, Str(Vocab)}}
    /\ localCtx \in UNION {[D -> {Null, Obj(EmptyMap)}] : D \in (SUBSET {T_a, T_b}) \ {{}}}
    /\ defined = EmptyMap
    /\ ret = IdleRet
    /\ arg = <<>>
    /\ out = Pending

SpecStale == InitStale /\ [][Next]_vars

(* createTermDefinition applied to one term of a local context *)

T_path == <<"a", "/", "b">>
TermInputs == {T_a, T_ab, T_path, T_at, K_type, K_id, <<>>}

TermKeys ==
    {"@id", "@type", "@container", "@protected", "@reverse", "@index", "@context",
     "@nest", "@prefix", "p"}

\* the values a generated term value map gives to the key k
TermEntries(k) ==
    CASE k = "@id" -> {Null, Str(Iri_a), Str(T_at), Str(T_a)}
      [] k = "@type" -> {Str(K_id), Str(Iri_a), Num(1)}
      [] k = "@container" -> {Null, Str(K_type), Str(K_set), Str(K_vocab),
                              Arr(<<Str(K_set), Str(K_type)>>),
                              Arr(<<Str(K_graph), Str(K_set)>>)}
      [] k = "@protected" -> {True, Num(1)}
      [] k = "@reverse" -> {Str(Iri_b), Str(T_at), Num(1)}
      [] k = "@index" -> {Str(T_a)}
      [] k = "@nest" -> {Str(T_a)}
      [] k = "@prefix" -> {True}
      [] k = "p" -> {Num(1)}
      [] OTHER -> {Obj(EmptyMap), Null, Num(1), Str(Iri_a)}

TermMaps ==
    UNION {{f \in [K -> UNION {TermEntries(k) : k \in K}] : \A k \in K : f[k] \in TermEntries(k)} :
           K \in {K \in SUBSET TermKeys : Cardinality(K) <= MaxEntries}}

\* the values a local context gives a term: absent, null, a string, a number, a
\* boolean, an array or a map
TermValues ==
    {Undefined, Null, Str(Iri_a), Str(<<"a", ":">>), Num(1), True, Arr(<<>>)}
        \cup {Obj(f) : f \in TermMaps}

TermContexts ==
    {Context(EmptyMap, Null, processingMode, vocabularyMapping) :
        processingMode \in {Str(Mode10), Str(Mode11)},
        vocabularyMapping \in {Undefined, Str(Vocab)}}

LocalOf(term, value) == IF value = Undefined THEN EmptyMap ELSE Put(EmptyMap, term, value)

TermCalls ==
    {[context |-> context, localContext |-> LocalOf(term, value), term |-> term,
      defined |-> EmptyMap, termProtected |-> termProtected] :
        context \in TermContexts, term \in TermInputs, value \in TermValues,
        termProtected \in BOOLEAN}
    \cup
    {[context |-> Context(td, inverseContext, Undefined, Str(Vocab)),
      localContext |-> LocalOf(T_a, value), term |-> T_a,
      defined |-> Put(EmptyMap, T_a, done), termProtected |-> FALSE] :
        td \in InitialDefinitions, inverseContext \in {Null, MapOf(EmptyMap)},
        value \in {Null, Str(Iri_b), Obj(EmptyMap)}, done \in BOOLEAN}

InitTerm == Idle /\ arg \in TermCalls /\ out = Pending

DefineTerm ==
    /\ out = Pending
    /\ LET r == createTermDefinition(arg.context, arg.localContext, arg.term, arg.defined,
                                     Str(<<>>), arg.termProtected, FALSE, EmptyMap, TRUE)
       IN  out' = [done |-> TRUE, context |-> Current(arg.context, r),
                   termDefinitions |-> r.termDefinitions,
                   defined |-> r.defined, definition |-> r.definition,
                   started |-> r.started,
                   status |-> r.status, error |-> r.error, step |-> r.step]
    /\ UNCHANGED <<activeContext, localCtx, defined, ret, arg>>

NextTerm == DefineTerm

SpecTerm == InitTerm /\ [][NextTerm]_vars

-----------------------------------------------------------------------------
(* createTermDefinition applied to a term with a prefix *)

T_abc == <<"a", ":", "b", ":", "c">>

\* the values of the term: a map without @id, the term itself
PrefixTermValues(term) == {Obj(EmptyMap), Str(term)}

\* what the local context has for the prefix "a": nothing, null, an IRI, the
\* prefix itself, a map
PrefixEntries == {Undefined, Null, Str(Iri_a), Str(T_a), Obj(EmptyMap)}

PrefixContexts ==
    {Context(td, Null, Str(Mode11), vocabularyMapping) :
        td \in InitialDefinitions, vocabularyMapping \in {Undefined, Str(Vocab)}}

\* the entry of the prefix in `defined`: none, defined, under way
PrefixDefined == {EmptyMap, Put(EmptyMap, T_a, TRUE), Put(EmptyMap, T_a, FALSE)}

LocalWith(localContext, term, value) ==
    IF value = Undefined THEN localContext ELSE Put(localContext, term, value)

PrefixCallsFor(term) ==
    {[context |-> context,
      localContext |-> LocalWith(LocalOf(T_a, entry), term, value), term |-> term,
      defined |-> definedMap, termProtected |-> FALSE] :
        context \in PrefixContexts, entry \in PrefixEntries, definedMap \in PrefixDefined,
        value \in PrefixTermValues(term)}

PrefixCalls == UNION {PrefixCallsFor(term) : term \in {T_a, T_ab, T_abc}}

InitPrefix == Idle /\ arg \in PrefixCalls /\ out = Pending

\* the call is one synchronous function call: once made it runs to its end
SpecPrefix == InitPrefix /\ [][NextTerm]_vars /\ WF_vars(DefineTerm)

----------------------------------------------------------------------------
(* C1, C2, C3: runs of createTermDefinition and selectTerm on one active context *)

TermDefs == activeContext.termDefinitions.v

IsProtected(definition) ==
    definition.t = "object" /\ Get(definition.v, "@protected") = True

\* the definitions d and e are equal but for their protected flag
SameButProtected(d, e) ==
    /\ d.t = "object" /\ e.t = "object"
    /\ Del(d.v, "@protected") = Del(e.v, "@protected")

\* C1: a createTermDefinition call with overrideProtected = false leaves every
\* protected term definition of the active context in force, equal to what it
\* was in every field but the protected flag.
C1_ProtectedKept ==
    [][(ret'.op = "createTermDefinition" /\ ~ret'.overrideProtected) =>
           \A t \in DOMAIN TermDefs :
               IsProtected(TermDefs[t]) =>
                   /\ t \in DOMAIN TermDefs'
                   /\ SameButProtected(TermDefs[t], TermDefs'[t])]_vars

\* C2: a createTermDefinition call that has added, removed or replaced a term
\* definition leaves the inverse context of the active context null.
C2_StaleAfterMutation ==
    [][(ret'.op = "createTermDefinition" /\ TermDefs' # TermDefs) =>
           activeContext'.inverseContext = Null]_vars

\* in the local context lc, the string value of the term t is a compact IRI whose
\* prefix is the term u
DependsOn(lc, t, u) ==
    /\ lc[t].t = "string"
    /\ Includes(lc[t].v, ":")
    /\ Split(lc[t].v, ":")[1] = u

\* the term t and another term of lc depend on each other
InCycle(lc, t) ==
    /\ t \in DOMAIN lc
    /\ \E u \in DOMAIN lc \ {t} : DependsOn(lc, t, u) /\ DependsOn(lc, u, t)

CyclicError == "Cyclic IRI mapping detected."

\* C3: a createTermDefinition call for a term whose `defined` entry is false
\* throws the cyclic IRI mapping error, and so does a call for a term that
\* depends on another term of the local context that depends on it.
C3_CyclicRejected ==
    [][ret'.op = "createTermDefinition" =>
           /\ (ret'.term \in DOMAIN defined /\ defined[ret'.term] = FALSE) =>
                  (ret'.status = "throw" /\ ret'.error = CyclicError)
           /\ InCycle(localCtx, ret'.term) =>
                  (ret'.status = "throw" /\ ret'.error = CyclicError)]_vars

----------------------------------------------------------------------------
(* C4: selectTerm *)

ArgContainerMap ==
    LET inverseContext == arg.context.inverseContext.v IN
    IF arg.varKeywordIri \in DOMAIN inverseContext
    THEN inverseContext[arg.varKeywordIri] ELSE EmptyMap

\* the i-th container and the j-th preferred value have an entry
IsHit(i, j) ==
    LET container == arg.containers[i] IN
    /\ container \in DOMAIN ArgContainerMap
    /\ arg.typeLanguage \in DOMAIN ArgContainerMap[container]
    /\ arg.preferredValues[j] \in DOMAIN ArgContainerMap[container][arg.typeLanguage]

Hits ==
    {p \in (1..Len(arg.containers)) \X (1..Len(arg.preferredValues)) : IsHit(p[1], p[2])}

HitTerm(p) ==
    ArgContainerMap[arg.containers[p[1]]][arg.typeLanguage][arg.preferredValues[p[2]]]

IsFirstHit(p) ==
    /\ p \in Hits
    /\ \A q \in Hits : p[1] < q[1] \/ (p[1] = q[1] /\ p[2] <= q[2])

\* C4: selectTerm returns the term at the first hit, containers scanned in order
\* and the preferred values in order within each, and null exactly when no pair
\* of a container and a preferred value has an entry.
C4_FirstHit ==
    out.done =>
        IF Hits = {} THEN out.result = Null
        ELSE \E p \in Hits : IsFirstHit(p) /\ out.result = Str(HitTerm(p))

C4_Witness ==
    /\ out.done
    /\ \E p \in Hits : /\ IsFirstHit(p) /\ out.result = Str(HitTerm(p))
                       /\ \E q \in Hits : q[1] = p[1] /\ HitTerm(q) # HitTerm(p)
                       /\ \E q \in Hits : q[1] # p[1] /\ HitTerm(q) # HitTerm(p)

----------------------------------------------------------------------------
(* C5, C6: createInverseContext *)

\* the terms of the active context whose definition is not null
ArgTerms == {t \in DOMAIN arg.termDefinitions.v : arg.termDefinitions.v[t].t = "object"}
ArgDef(t) == arg.termDefinitions.v[t].v

\* the cells of the @language, @type and @any maps the term t writes when no
\* other term has written them
CellsOf(t) ==
    LET fresh == [k \in {"@language", "@type", "@any"} |->
                     IF k = "@any" THEN Put(EmptyMap, K_none, t) ELSE EmptyMap]
        filled == AddTerm(fresh, ArgDef(t), t, K_none, Undefined)
    IN  UNION {{<<k, v>> : v \in DOMAIN filled[k]} : k \in DOMAIN filled}

\* the terms that would occupy the cell c of the branch of the term t
Rivals(t, c) ==
    {u \in ArgTerms : /\ ArgDef(u)["@id"] = ArgDef(t)["@id"]
                      /\ ContainerKey(ArgDef(u)) = ContainerKey(ArgDef(t))
                      /\ c \in CellsOf(u)}

\* a is shorter than b, or as long and before it lexicographically
ShorterOrLess(a, b) == Len(a) < Len(b) \/ (Len(a) = Len(b) /\ CodeUnitLess(a, b))

\* the term the cell c of the branch (id, container) holds, <<>> when there is none
CellAt(result, id, container, c) ==
    IF /\ id \in DOMAIN result.v
       /\ container \in DOMAIN result.v[id]
       /\ c[2] \in DOMAIN result.v[id][container][c[1]]
    THEN result.v[id][container][c[1]][c[2]]
    ELSE <<>>

\* C5: a cell that two or more terms with the same IRI mapping and container key
\* would occupy holds the shortest of them, the lexicographically least among
\* those of the same length.
C5_ShortestTermWins ==
    out.done =>
        \A t \in ArgTerms : \A c \in CellsOf(t) :
            Cardinality(Rivals(t, c)) >= 2 =>
                LET held == CellAt(out.result, ArgDef(t)["@id"], ContainerKey(ArgDef(t)), c)
                IN  /\ held \in Rivals(t, c)
                    /\ \A u \in Rivals(t, c) : ~ShorterOrLess(u, held)

\* C6: the result has, for each term whose definition is not null, a branch under
\* the IRI mapping and the container key of the definition, whose @any entry maps
\* @none to a term of the active context.
C6_BranchPerTerm ==
    out.done =>
        \A t \in ArgTerms :
            CellAt(out.result, ArgDef(t)["@id"], ContainerKey(ArgDef(t)), <<"@any", K_none>>)
                \in DOMAIN arg.termDefinitions.v

----------------------------------------------------------------------------
(* C10: the type mapping of a container mapping that includes @type *)

ArgValue == Get(arg.localContext, arg.term)

HasTypeContainer(definition) ==
    /\ Truthy(Get(definition, "@container"))
    /\ ArrayIncludes(definition["@container"], K_type)

\* the value of the term asks for a container mapping that includes @type
AsksTypeContainer ==
    /\ HasKey(ArgValue, "@container")
    /\ \/ ArgValue.v["@container"] = Str(K_type)
       \/ /\ ArgValue.v["@container"].t = "array"
          /\ ArrayIncludes(ArgValue.v["@container"], K_type)

\* C10: a definition built with a container mapping that includes @type has the
\* type mapping @id or @vocab, @id when the value of the term has no @type; a
\* call that gets as far as the type mapping of a value whose @type is neither
\* throws the invalid type mapping error.
C10_TypeContainer ==
    out.done =>
        /\ HasTypeContainer(out.definition) =>
              /\ Get(out.definition, "@type") \in {Str(K_id), Str(K_vocab)}
              /\ ~HasKey(ArgValue, "@type") => out.definition["@type"] = Str(K_id)
        /\ (/\ AsksTypeContainer /\ HasKey(ArgValue, "@type")
            /\ ArgValue.v["@type"] \notin {Str(K_id), Str(K_vocab)}
            /\ out.step >= 12) =>
              (out.status = "throw" /\ out.error = "Invalid type mapping.")

C10_Witness ==
    /\ out.done /\ out.status = "return" /\ out.step = 28
    /\ HasTypeContainer(out.definition)
    /\ ~HasKey(ArgValue, "@type")
    /\ out.definition["@type"] = Str(K_id)

----------------------------------------------------------------------------
(* C7, C8, C9: the shape predicates *)

ArgKeys == IF IsObject(arg) THEN ObjectKeys(arg) ELSE {}

\* C7 (as stated): isSubject holds exactly of the maps that are no value, list,
\* set or graph object and have more than one key or a single key other than @id;
\* so nothing is both a subject and a graph object.
C7_SubjectExcludesGraph ==
    out.done =>
        /\ out.isSubject =
              (/\ arg.t = "object"
               /\ ~out.isValueObject /\ ~out.isListObject
               /\ "@set" \notin ArgKeys
               /\ ~out.isGraphObject
               /\ (Cardinality(ArgKeys) > 1 \/ "@id" \notin ArgKeys))
        /\ ~(out.isSubject /\ out.isGraphObject)

\* C7 (amended): isSubject holds exactly of the non-null objects (maps, and arrays
\* with their indices as keys) that are no value object, no list object, have no
\* @set key and are no subject reference; graph objects are not excluded.
C7_SubjectShape ==
    out.done =>
        out.isSubject =
            (/\ arg.t \in {"object", "array"}
             /\ ~out.isValueObject /\ ~out.isListObject
             /\ "@set" \notin ArgKeys
             /\ ~out.isSubjectRef)

C7_Witness ==
    /\ out.done /\ out.isSubject /\ out.isGraphObject
    /\ arg.t = "object" /\ DOMAIN arg.v = {"@graph", "@id"}

ArgIdIsBlank ==
    /\ arg.v["@id"].t = "string"
    /\ Len(arg.v["@id"].v) >= 2
    /\ arg.v["@id"].v[1] = "_" /\ arg.v["@id"].v[2] = ":"

\* C8 (as stated): with an @id entry, isBlankNode holds exactly when the @id is a
\* string starting with "_:"; without one, exactly when the map has no keys or a
\* key other than @value, @set, @list.
C8_BlankNodeStringId ==
    (out.done /\ arg.t = "object") =>
        IF "@id" \in ArgKeys
        THEN out.isBlankNode = ArgIdIsBlank
        ELSE out.isBlankNode = (ArgKeys = {} \/ ~(ArgKeys \subseteq {"@value", "@set", "@list"}))

\* C8 (amended): with an @id entry, isBlankNode holds exactly when the @id is not a
\* string or is a string starting with "_:"; without one, exactly when the map has
\* no keys or a key other than @value, @set, @list.
C8_BlankNodeShape ==
    (out.done /\ arg.t = "object") =>
        IF "@id" \in ArgKeys
        THEN out.isBlankNode = (arg.v["@id"].t # "string" \/ ArgIdIsBlank)
        ELSE out.isBlankNode = (ArgKeys = {} \/ ~(ArgKeys \subseteq {"@value", "@set", "@list"}))

C8_Witness ==
    /\ out.done /\ arg.t = "object" /\ "@id" \in ArgKeys
    /\ arg.v["@id"].t = "number" /\ out.isBlankNode

ArgWords == {arg.v[i].v : i \in 1..Len(arg.v)}

\* the container values C9 lists
C9_Listed ==
    CASE arg.t = "null" -> TRUE
      [] arg.t = "string" -> arg.v \in ContainerKeywords
      [] arg.t = "array" ->
            \/ Len(arg.v) = 1 /\ ArgWords \subseteq ContainerKeywords
            \/ /\ Len(arg.v) = Cardinality(ArgWords)
               /\ ArgWords \in {{K_graph, K_id}, {K_graph, K_index},
                                {K_graph, K_id, K_set}, {K_graph, K_index, K_set}}
            \/ Len(arg.v) >= 2 /\ K_set \in ArgWords /\ ArgWords \subseteq SetCompanions
      [] OTHER -> FALSE

\* C9: isContainer is true exactly for null, a container keyword, an array of one
\* container keyword, @graph with @id or @index (optionally with @set), and any
\* array combining @set with @index, @id, @graph, @type, @language.
C9_ContainerValues == out.done => (out.isContainer = C9_Listed)

\* ---------------------------------------------------------------------------
\* The entries and the kinds of value of a term (SpecTerm)

\* defined.get(term) === true
DefinedTrue(definedMap, term) == term \in DOMAIN definedMap /\ definedMap[term] = TRUE

\* the call starts with no entry for the term in `defined`
ArgFresh == arg.term \notin DOMAIN arg.defined

\* the entries step 26 lets a term's value have
AllowedTermKeys ==
    {"@id", "@reverse", "@container", "@context", "@direction", "@index", "@language",
     "@nest", "@prefix", "@protected", "@type"}

ArgIsMap == ArgValue.t = "object"

ArgHasUnknownKey == ArgIsMap /\ ~(DOMAIN ArgValue.v \subseteq AllowedTermKeys)

\* C11: a call whose value is a map without @reverse that has an entry other
\* than @id, @reverse, @container, @context, @direction, @index, @language,
\* @nest, @prefix, @protected, @type, and which no earlier step has ended, ends
\* with the invalid term definition error.
C11_UnknownKeyRejected ==
    (/\ out.done /\ ArgFresh /\ ArgHasUnknownKey /\ ~HasKey(ArgValue, "@reverse")
     /\ out.step >= 26) =>
        (out.status = "throw" /\ out.error = "Invalid term definition.")

\* C12: a call that gets as far as the value of the term throws the invalid
\* term definition error at step 9 when the value is a number, a boolean, an
\* array or absent, and does not throw it there when the value is null, a
\* string or a map.
C12_ValueKinds ==
    (out.done /\ ArgFresh /\ out.step >= 9) =>
        ((out.status = "throw" /\ out.step = 9 /\ out.error = "Invalid term definition.")
            <=> ArgValue.t \notin {"null", "string", "object"})

\* the values the claim lets the term @type have: a map with at most @container,
\* which is @set, and @protected
TypeTermValueAllowed ==
    /\ ArgIsMap
    /\ DOMAIN ArgValue.v \subseteq {"@container", "@protected"}
    /\ HasKey(ArgValue, "@container") => ArgValue.v["@container"] = Str(K_set)

\* C13: a call for a term that is a keyword throws the keyword redefinition
\* error unless the term is @type, the mode is not json-ld-1.0 and the value is
\* a map with at most @container, of value @set, and @protected.
C13_KeywordTerms ==
    (/\ out.done /\ ArgFresh /\ arg.term \in Keywords
     /\ ~(arg.term = K_type /\ ~IsMode10(arg.context) /\ TypeTermValueAllowed)) =>
        (out.status = "throw" /\ out.error = "Keyword redefinition error.")

\* C14: in mode json-ld-1.0 no call whose value has @protected, @context,
\* @nest, @prefix or @index, or whose @type is @json or @none, runs to the end
\* of the function.
C14_Mode10Entries ==
    (/\ out.done /\ ArgFresh /\ IsMode10(arg.context)
     /\ \/ \E key \in {"@protected", "@context", "@nest", "@prefix", "@index"} :
               HasKey(ArgValue, key)
        \/ Prop(ArgValue, "@type") \in {Str(K_json), Str(K_none)}) =>
        ~(out.status = "return" /\ out.step = 28)

\* ---------------------------------------------------------------------------
\* What a call leaves in the active context and in `defined` (SpecTerm)

\* a string of the form of a keyword that is not a keyword
ReservedForm(x) == x.t = "string" /\ KeywordForm(x.v) /\ x.v \notin Keywords

\* the value of the term as steps 7 and 8 normalise it
ArgMap == TermValue(ArgValue)

\* C18: a call that returns normally for a term that has not the form of a
\* keyword, and whose @id and @reverse have not the form of a keyword either,
\* leaves a definition of the term in the active context and the entry of the
\* term in `defined` true.
C18_ReturnCommits ==
    (/\ out.done /\ ArgFresh /\ out.status = "return"
     /\ ~KeywordForm(arg.term)
     /\ ~ReservedForm(Prop(ArgMap, "@id")) /\ ~ReservedForm(Prop(ArgMap, "@reverse"))) =>
        (/\ arg.term \in DOMAIN out.termDefinitions
         /\ DefinedTrue(out.defined, arg.term))

\* C19: a call for a term whose entry in `defined` is true returns at once:
\* the term definitions and the inverse context of the active context, and
\* `defined`, are what they were.
C19_DefinedReturns ==
    (out.done /\ DefinedTrue(arg.defined, arg.term)) =>
        (/\ out.status = "return" /\ out.step = 1
         /\ out.context = arg.context
         /\ out.defined = arg.defined)

C19_Witness ==
    /\ out.done /\ DefinedTrue(arg.defined, arg.term)
    /\ arg.term \in DOMAIN arg.context.termDefinitions.v
    /\ arg.context.inverseContext # Null
    /\ ArgValue = Str(Iri_b)
    /\ out.status = "return"

\* a value the reverse step accepts: @reverse is an absolute IRI, there is no
\* @id or @nest, and @container, when present, is @set, @index or null
ArgValidReverse ==
    /\ ArgIsMap
    /\ HasKey(ArgValue, "@reverse") /\ ArgValue.v["@reverse"].t = "string"
    /\ AbsoluteIriForm(ArgValue.v["@reverse"].v)
    /\ ~HasKey(ArgValue, "@id") /\ ~HasKey(ArgValue, "@nest")
    /\ HasKey(ArgValue, "@container") =>
          ArgValue.v["@container"] \in {Str(K_set), Str(K_index), Null}

\* C20: a call that gets as far as a valid @reverse returns from the reverse
\* step, having set the definition of the term, with its reverse flag true, in
\* the active context and the entry of the term in `defined` to true.
C20_ReverseCommits ==
    (out.done /\ ArgFresh /\ ArgValidReverse /\ out.step >= 13) =>
        (/\ out.status = "return" /\ out.step = 13
         /\ Get(out.definition, "@reverse") = True
         /\ Get(out.termDefinitions, arg.term) = Obj(out.definition)
         /\ DefinedTrue(out.defined, arg.term))


\* ---------------------------------------------------------------------------
\* The mappings of the definition a call builds (SpecTerm)

\* C21: a call that gets as far as a valid @reverse leaves in the active
\* context a definition of the term whose IRI mapping is the expansion of the
\* value of @reverse, an absolute IRI that expands to itself.
C21_ReverseIriMapping ==
    (out.done /\ ArgFresh /\ ArgValidReverse /\ out.step >= 13) =>
        (/\ arg.term \in DOMAIN out.termDefinitions
         /\ Prop(out.termDefinitions[arg.term], "@id") = ArgValue.v["@reverse"])

\* the call is for a value without @reverse that has @container and it gets as
\* far as the container mapping
ArgContainerReached ==
    /\ out.done /\ ArgFresh
    /\ HasKey(ArgValue, "@container") /\ ~HasKey(ArgValue, "@reverse")
    /\ out.step >= 19

\* Array.isArray(container) ? container : [container]
ContainerArray(container) == IF container.t = "array" THEN container ELSE Arr(<<container>>)

ContainerRejected ==
    out.status = "throw" /\ out.step = 19 /\ out.error = "Invalid container mapping."

BlankNodeForm(x) == Len(x) >= 2 /\ SubSeq(x, 1, 2) = <<"_", ":">>

\* C23: for a term with neither colon nor slash whose value is a string, an
\* absolute IRI (which expands to itself) other than the term, the prefix flag
\* of the definition is true exactly when that IRI ends in a gen-delim
\* character or is a blank node identifier.
C23_PrefixFlag ==
    (/\ out.done /\ ArgFresh /\ ArgValue.t = "string"
     /\ ~Includes(arg.term, ":") /\ ~Includes(arg.term, "/")
     /\ AbsoluteIriForm(ArgValue.v) /\ ArgValue.v # arg.term
     /\ out.step >= 14) =>
        ((Get(out.definition, "@prefix") = True)
            <=> (EndsWithGenDelim(ArgValue.v) \/ BlankNodeForm(ArgValue.v)))

\* the forms of a local context: a map, an array, a string, null
LocalContextForm(x) == x.t \in {"object", "array", "string", "null"}

\* C25: in a mode other than json-ld-1.0, a call that gets as far as an
\* @context entry that has the form of a local context raises no error there
\* but the invalid scoped context error, and when it raises none the
\* definition holds the value of the entry as it is.
C25_ScopedContext ==
    (/\ out.done /\ ArgFresh /\ ~IsMode10(arg.context)
     /\ HasKey(ArgValue, "@context") /\ LocalContextForm(ArgValue.v["@context"])
     /\ out.step >= 21) =>
        IF out.status = "throw" /\ out.step = 21
        THEN out.error = "Invalid scoped context."
        ELSE Get(out.definition, "@context") = ArgValue.v["@context"]


\* ---------------------------------------------------------------------------
\* Terms with a prefix (SpecPrefix)

\* term.includes(":") && term.charAt(0) !== ":"
ArgHasPrefix == Includes(arg.term, ":") /\ arg.term[1] # ":"

\* step 15 is the one that sets the IRI mapping: no @id other than the term
ArgTakesPrefixStep ==
    ArgHasPrefix /\ ~(HasKey(ArgMap, "@id") /\ ArgMap.v["@id"] # Str(arg.term))

ArgPrefix == Split(arg.term, ":")[1]

\* the whole of the term after its first colon
ArgSuffix == SubSeq(arg.term, IndexOf(arg.term, ":") + 1, Len(arg.term))

\* C24: a call for a term with a colon after its first character, and no @id
\* other than the term, that runs to its end has given the definition the IRI
\* mapping of the prefix followed by all of the term after its first colon
\* when the active context has a definition of the prefix, and the term itself
\* when it has none.
C24_PrefixMapping ==
    (out.done /\ ArgFresh /\ ArgTakesPrefixStep /\ out.status = "return" /\ out.step = 28) =>
        LET prefixDefinition == Get(out.termDefinitions, ArgPrefix)
        IN  Get(out.definition, "@id") =
                IF Truthy(prefixDefinition)
                THEN Str(ToStr(Prop(prefixDefinition, "@id")) \o ArgSuffix)
                ELSE Str(arg.term)

NoDuplicates(q) == \A i, j \in 1..Len(q) : q[i] = q[j] => i = j

\* the call started the definition of no term twice and of no term that had
\* an entry in `defined` already
StartedOnce ==
    /\ NoDuplicates(out.started)
    /\ \A i \in 1..Len(out.started) : out.started[i] \notin DOMAIN arg.defined

DefinedFalse(definedMap, term) == term \in DOMAIN definedMap /\ definedMap[term] = FALSE

\* the call, or its call for the prefix, is for a term whose definition is
\* under way
ArgReEnters ==
    \/ DefinedFalse(arg.defined, arg.term)
    \/ /\ ArgFresh /\ ArgTakesPrefixStep
       /\ Truthy(Get(arg.localContext, ArgPrefix))
       /\ DefinedFalse(arg.defined, ArgPrefix)

ArgDefinitions == arg.context.termDefinitions.v

\* the definition has a language mapping and no type mapping, no direction
\* mapping and no reverse flag
LanguageOnly(definition) ==
    /\ definition.t = "object"
    /\ "@language" \in DOMAIN definition.v
    /\ "@type" \notin DOMAIN definition.v /\ "@direction" \notin DOMAIN definition.v
    /\ definition.v["@reverse"] = False

\* the key of the @language sub-map for a language mapping
LanguageKey(language) == IF language = Null THEN K_null ELSE ToLowerCase(language.v)

\* C26: every term whose definition has only a language mapping has, in the
\* inverse context built, under its IRI and container, an entry of the
\* @language sub-map for its language in lower case (@null for null), and is
\* not an entry of the @type sub-map.
C26_LanguageEntry ==
    out.done =>
        \A term \in DOMAIN ArgDefinitions :
            LanguageOnly(ArgDefinitions[term]) =>
                LET def == ArgDefinitions[term].v
                    iri == def["@id"]
                    container == ContainerKey(def)
                IN  /\ iri \in DOMAIN out.built.v
                    /\ container \in DOMAIN out.built.v[iri]
                    /\ LanguageKey(def["@language"])
                          \in DOMAIN out.built.v[iri][container]["@language"]
                    /\ \A type \in DOMAIN out.built.v[iri][container]["@type"] :
                          out.built.v[iri][container]["@type"][type] # term

C28_DefinitionsKept ==
    out.done =>
        /\ out.builtDefinitions = arg.context.termDefinitions
        /\ out.context.termDefinitions = arg.context.termDefinitions
        /\ [out.context EXCEPT !.inverseContext = arg.context.inverseContext] = arg.context

C28_Witness ==
    /\ out.done
    /\ \E term \in DOMAIN ArgDefinitions :
          /\ ArgDefinitions[term].t = "object"
          /\ Get(ArgDefinitions[term].v, "@container") = Arr(<<Str(K_set), Str(K_index)>>)
    /\ arg.context.inverseContext = Null
    /\ out.context.inverseContext # Null


\* ---------------------------------------------------------------------------
\* Value objects and blank nodes (SpecShape)

\* C29 as stated: no map is classified both as a value object and as a blank
\* node.
C29_ValueObjectNotBlank ==
    (out.done /\ IsObject(arg)) => ~(out.isValueObject /\ out.isBlankNode)

\* C29 amended: a map is classified both as a value object and as a blank node
\* exactly when it has @value and either an @id that is not a string or
\* starts with "_:", or no @id and a key other than @value, @set, @list; so a
\* map without @id whose keys are all among @value, @set, @list is never both.
C29_BothShapes ==
    (out.done /\ IsObject(arg)) =>
        ((out.isValueObject /\ out.isBlankNode) <=>
            /\ "@value" \in ArgKeys
            /\ IF "@id" \in ArgKeys THEN (arg.v["@id"].t # "string" \/ ArgIdIsBlank)
               ELSE \E key \in ArgKeys : key \notin {"@value", "@set", "@list"})

C29_Witness ==
    /\ out.done /\ arg.t = "object" /\ ArgKeys = {"@value", "@list"}
    /\ out.isValueObject /\ ~out.isBlankNode

-----------------------------------------------------------------------------
(* Blank node identifiers: one run of calls of generateBlankNodeIdentifier *)

B_a == <<"_", ":", "a">>
B_b == <<"_", ":", "b">>

\* generateBlankNodeIdentifier: the body of the function holds no statement, it
\* returns undefined and no identifier map is kept
generateBlankNodeIdentifier(identifier) == Undefined

\* the identifiers passed in one run, in order
BlankRuns == UNION {[1..n -> {Null, Str(B_a), Str(B_b)}] : n \in 1..MaxCalls}

InitBlank == Idle /\ arg \in BlankRuns /\ out = [done |-> FALSE, labels |-> <<>>]

\* the next call of the run
GenerateBlank ==
    /\ Len(out.labels) < Len(arg)
    /\ out' = [done |-> Len(out.labels) + 1 = Len(arg),
               labels |-> Append(out.labels,
                                 generateBlankNodeIdentifier(arg[Len(out.labels) + 1]))]
    /\ UNCHANGED <<activeContext, localCtx, defined, ret, arg>>

NextBlank == GenerateBlank

SpecBlank == InitBlank /\ [][NextBlank]_vars

\* C15: two calls of one run return the same label exactly when both were
\* passed the same identifier and it is not null; so the label of a call with
\* null is the label of no other call.
C15_LabelsPerIdentifier ==
    \A i, j \in 1..Len(out.labels) :
        i # j => ((out.labels[i] = out.labels[j]) <=> (arg[i] # Null /\ arg[i] = arg[j]))

-----------------------------------------------------------------------------
(* Remote contexts: processContext applied to the URL of a remote context *)

\* the limit on the number of remote contexts of one run
ContextLimit == 50

Url_a == <<"h", ":", "a">>
Url_b == <<"h", ":", "b">>

\* the remote contexts entered so far along a cycle of two contexts that
\* refer to each other
RemoteChain(n) == [i \in 1..n |-> IF i % 2 = 1 THEN Str(Url_a) ELSE Str(Url_b)]

RemoteCalls ==
    {[localContext |-> Str(url), remoteContexts |-> Arr(RemoteChain(n))] :
        url \in {Url_a, Url_b}, n \in 0..(ContextLimit + 1)}

InitRemote == Idle /\ arg \in RemoteCalls /\ out = Pending

\* one call of processContext: no statement of it raises an error
ProcessRemote ==
    /\ out = Pending
    /\ out' = [done |-> TRUE, status |-> "return", error |-> "",
               result |-> processContext(IdleContext, arg.localContext, Str(<<>>),
                                         arg.remoteContexts, FALSE, TRUE, TRUE)]
    /\ UNCHANGED <<activeContext, localCtx, defined, ret, arg>>

NextRemote == ProcessRemote

SpecRemote == InitRemote /\ [][NextRemote]_vars

\* C16: a call for a remote context when the remote contexts entered already
\* number more than the limit aborts with the context overflow error.
C16_ContextOverflow ==
    (out.done /\ Len(arg.remoteContexts.v) > ContextLimit) =>
        (out.status = "throw" /\ out.error = "Context overflow.")

====
